---- MODULE Spec2Model ----
(***************************************************************************)
(* Xlap window tiler (src/xlap.py): the layout transition engine, the      *)
(* display lookup and the geometry computation of XlapCore, with the       *)
(* external commands (xdotool, xrandr, notify-send) as the environment.    *)
(***************************************************************************)
EXTENDS Integers, Sequences, FiniteSets, TLC

VARIABLES window_state, config, calls, notes, last, threads

vars == <<window_state, config, calls, notes, last, threads>>

\* Python None for names and window ids; like the empty string it is falsy.
None == ""

\* ---- class Layouts: layout string constants ----
FULL_SCREEN == "Full Screen"
MAXIMIZED == "Maximized"
ALMOST_MAXIMIZED == "Almost Maximized"
COL_50_LEFT == "50% Left"
COL_50_RIGHT == "50% Right"
COL_66_LEFT == "66% Left"
COL_66_RIGHT == "66% Right"
COL_33_LEFT == "33% Left"
COL_33_CENTER == "33% Center"
COL_33_RIGHT == "33% Right"
ROW_50_TOP == "50% Top"
ROW_50_BOTTOM == "50% Bottom"
ROW_66_TOP == "66% Top"
ROW_66_BOTTOM == "66% Bottom"
ROW_33_TOP == "33% Top"
ROW_33_CENTER == "33% Middle"
ROW_33_BOTTOM == "33% Bottom"
CELL_50_LEFT_TOP == "50% Top Left"
CELL_50_LEFT_BOTTOM == "50% Bottom Left"
CELL_50_RIGHT_TOP == "50% Top Right"
CELL_50_RIGHT_BOTTOM == "50% Bottom Right"
CELL_33_LEFT_TOP == "33% Top Left"
CELL_33_LEFT_CENTER == "33% Middle Left"
CELL_33_LEFT_BOTTOM == "33% Bottom Left"
CELL_33_CENTER_TOP == "33% Top Center"
CELL_33_CENTER_CENTER == "33% Middle Center"
CELL_33_CENTER_BOTTOM == "33% Bottom Center"
CELL_33_RIGHT_TOP == "33% Top Right"
CELL_33_RIGHT_CENTER == "33% Middle Right"
CELL_33_RIGHT_BOTTOM == "33% Bottom Right"

\* ---- LAYOUT_GEOMETRY: (x_factor, y_factor, width_factor, height_factor).
\* The factors 0.0, 1/3, 0.5, 2/3, 1.0 are kept as numerators over GeomDen;
\* see IntMul for how the float product is evaluated.
GeomDen == 6

LAYOUT_GEOMETRY ==
    ALMOST_MAXIMIZED :> <<0, 0, 6, 6>> @@
    COL_50_LEFT :> <<0, 0, 3, 6>> @@
    COL_50_RIGHT :> <<3, 0, 3, 6>> @@
    COL_66_LEFT :> <<0, 0, 4, 6>> @@
    COL_66_RIGHT :> <<2, 0, 4, 6>> @@
    COL_33_LEFT :> <<0, 0, 2, 6>> @@
    COL_33_CENTER :> <<2, 0, 2, 6>> @@
    COL_33_RIGHT :> <<4, 0, 2, 6>> @@
    ROW_50_TOP :> <<0, 0, 6, 3>> @@
    ROW_50_BOTTOM :> <<0, 3, 6, 3>> @@
    ROW_66_TOP :> <<0, 0, 6, 4>> @@
    ROW_66_BOTTOM :> <<0, 2, 6, 4>> @@
    ROW_33_TOP :> <<0, 0, 6, 2>> @@
    ROW_33_CENTER :> <<0, 2, 6, 2>> @@
    ROW_33_BOTTOM :> <<0, 4, 6, 2>> @@
    CELL_50_LEFT_TOP :> <<0, 0, 3, 3>> @@
    CELL_50_LEFT_BOTTOM :> <<0, 3, 3, 3>> @@
    CELL_50_RIGHT_TOP :> <<3, 0, 3, 3>> @@
    CELL_50_RIGHT_BOTTOM :> <<3, 3, 3, 3>> @@
    CELL_33_LEFT_TOP :> <<0, 0, 2, 2>> @@
    CELL_33_LEFT_CENTER :> <<0, 2, 2, 2>> @@
    CELL_33_LEFT_BOTTOM :> <<0, 4, 2, 2>> @@
    CELL_33_CENTER_TOP :> <<2, 0, 2, 2>> @@
    CELL_33_CENTER_CENTER :> <<2, 2, 2, 2>> @@
    CELL_33_CENTER_BOTTOM :> <<2, 4, 2, 2>> @@
    CELL_33_RIGHT_TOP :> <<4, 0, 2, 2>> @@
    CELL_33_RIGHT_CENTER :> <<4, 2, 2, 2>> @@
    CELL_33_RIGHT_BOTTOM :> <<4, 4, 2, 2>>

\* Ordered list; a window's state is an index into it (0-based in the code).
LAYOUT_SEQUENCE == <<
    FULL_SCREEN,
    MAXIMIZED,
    ALMOST_MAXIMIZED,
    COL_50_LEFT,
    COL_50_RIGHT,
    COL_66_LEFT,
    COL_66_RIGHT,
    COL_33_LEFT,
    COL_33_CENTER,
    COL_33_RIGHT,
    ROW_50_TOP,
    ROW_50_BOTTOM,
    ROW_66_TOP,
    ROW_66_BOTTOM,
    ROW_33_TOP,
    ROW_33_CENTER,
    ROW_33_BOTTOM,
    CELL_50_LEFT_TOP,
    CELL_50_LEFT_BOTTOM,
    CELL_50_RIGHT_TOP,
    CELL_50_RIGHT_BOTTOM,
    CELL_33_LEFT_TOP,
    CELL_33_LEFT_CENTER,
    CELL_33_LEFT_BOTTOM,
    CELL_33_CENTER_TOP,
    CELL_33_CENTER_CENTER,
    CELL_33_CENTER_BOTTOM,
    CELL_33_RIGHT_TOP,
    CELL_33_RIGHT_CENTER,
    CELL_33_RIGHT_BOTTOM
>>

Directions == {"left", "right", "up", "down"}

\* Variant of LAYOUT_TRANSITIONS: "left" from "50% Left" widens the window
LAYOUT_TRANSITIONS_Widen ==
    <<COL_50_LEFT, "left">> :> COL_66_LEFT @@
    <<COL_50_LEFT, "up">> :> CELL_50_LEFT_TOP @@
    <<COL_50_LEFT, "down">> :> CELL_50_LEFT_BOTTOM @@
    <<COL_50_RIGHT, "up">> :> CELL_50_RIGHT_TOP @@
    <<COL_50_RIGHT, "down">> :> CELL_50_RIGHT_BOTTOM @@
    <<ROW_50_TOP, "left">> :> CELL_50_LEFT_TOP @@
    <<ROW_50_TOP, "right">> :> CELL_50_RIGHT_TOP @@
    <<ROW_50_BOTTOM, "left">> :> CELL_50_LEFT_BOTTOM @@
    <<ROW_50_BOTTOM, "right">> :> CELL_50_RIGHT_BOTTOM

\* Variant of LAYOUT_TRANSITIONS: the corners of "50% Left" are exchanged
LAYOUT_TRANSITIONS_Swapped ==
    <<COL_50_LEFT, "up">> :> CELL_50_LEFT_BOTTOM @@
    <<COL_50_LEFT, "down">> :> CELL_50_LEFT_TOP @@
    <<COL_50_RIGHT, "up">> :> CELL_50_RIGHT_TOP @@
    <<COL_50_RIGHT, "down">> :> CELL_50_RIGHT_BOTTOM @@
    <<ROW_50_TOP, "left">> :> CELL_50_LEFT_TOP @@
    <<ROW_50_TOP, "right">> :> CELL_50_RIGHT_TOP @@
    <<ROW_50_BOTTOM, "left">> :> CELL_50_LEFT_BOTTOM @@
    <<ROW_50_BOTTOM, "right">> :> CELL_50_RIGHT_BOTTOM

LAYOUT_TRANSITIONS ==
    <<COL_50_LEFT, "up">> :> CELL_50_LEFT_TOP @@
    <<COL_50_LEFT, "down">> :> CELL_50_LEFT_BOTTOM @@
    <<COL_50_RIGHT, "up">> :> CELL_50_RIGHT_TOP @@
    <<COL_50_RIGHT, "down">> :> CELL_50_RIGHT_BOTTOM @@
    <<ROW_50_TOP, "left">> :> CELL_50_LEFT_TOP @@
    <<ROW_50_TOP, "right">> :> CELL_50_RIGHT_TOP @@
    <<ROW_50_BOTTOM, "left">> :> CELL_50_LEFT_BOTTOM @@
    <<ROW_50_BOTTOM, "right">> :> CELL_50_RIGHT_BOTTOM

\* Variant of DEFAULT_TRANSITIONS: "up" names a layout that does not exist
DEFAULT_TRANSITIONS_BadTarget ==
    "left" :> COL_50_LEFT @@
    "right" :> COL_50_RIGHT @@
    "up" :> "50% Up" @@
    "down" :> ROW_50_BOTTOM

DEFAULT_TRANSITIONS ==
    "left" :> COL_50_LEFT @@
    "right" :> COL_50_RIGHT @@
    "up" :> ROW_50_TOP @@
    "down" :> ROW_50_BOTTOM

\* ---- Python built-ins used by the code ----
\* max(a, b)
Max(a, b) == IF a >= b THEN a ELSE b

\* The least element of a non-empty set of integers
SetMin(S) == CHOOSE m \in S : \A k \in S : m <= k

\* dict.get(key) with the default None
DictGet(d, key) == IF key \in DOMAIN d THEN d[key] ELSE None

\* x in list
InList(s, x) == \E i \in 1..Len(s) : s[i] = x

\* list.index(x): 0-based position of the first occurrence
ListIndex(s, x) == SetMin({i \in 0..(Len(s) - 1) : s[i + 1] = x})

\* list[i] raises IndexError unless -len <= i < len
IndexInRange(s, i) == (0 - Len(s)) <= i /\ i < Len(s)

\* list[i] with Python's negative indices
ListItem(s, i) == IF i >= 0 THEN s[i + 1] ELSE s[Len(s) + i + 1]

\* Variant of IntMul: the product is rounded away from zero
IntMul_Ceil(n, a) ==
    IF n * a >= 0 THEN (n * a + GeomDen - 1) \div GeomDen
    ELSE 0 - ((0 - (n * a) + GeomDen - 1) \div GeomDen)

\* Variant of IntMul: rounds down instead of toward zero
IntMul_Floor(n, a) == (n * a) \div GeomDen

\* int(n * f) for an integer n and a factor f = a/GeomDen of LAYOUT_GEOMETRY.
\* int() truncates toward zero.  The double product n * f is exact for
\* 0.0, 0.5 and 1.0; for 1/3 and 2/3 the factor is the real value times
\* (1 - 2^-54), so the product rounds to the integer n*a/GeomDen when that is
\* an integer and otherwise keeps the integer part of the real product.
IntMul(n, a) ==
    IF n * a >= 0 THEN (n * a) \div GeomDen
    ELSE 0 - ((0 - (n * a)) \div GeomDen)

\* ---- class Config: the class attributes before any file is loaded ----
DefaultConfig ==
    [window_margin_top |-> 30,
     window_margin_left |-> 30,
     screen_margin_bottom |-> 30,
     screen_margin_right |-> 30,
     notify_on_apply_layout |-> FALSE,
     notify_on_launch |-> TRUE]

\* ---- the settings file read by Config.load ----
ConfigKeys ==
    {"window_margin_top", "window_margin_left", "screen_margin_bottom",
     "screen_margin_right", "notify_on_apply_layout", "notify_on_launch"}

\* ~/.xlap-conf.json as Config.load finds it: absent ("missing"), not
\* parseable as JSON ("malformed"), JSON that is not an object
\* ("not_object"), or an object with the settings named by keys
SettingsFile(kind, keys, values) ==
    [kind |-> kind, keys |-> keys, values |-> values]

\* No settings file was read by the operation
NoFile == SettingsFile("none", {}, DefaultConfig)

\* data.get(key, default) on the parsed object
DataGet(file, key, default) ==
    IF key \in file.keys THEN file.values[key] ELSE default

\* Config.load: the settings after the call, the notifications sent, and
\* whether an exception left the call. A missing file is first written by
\* save_default with the current settings and then read back; a file that
\* is not JSON raises JSONDecodeError before any setting is assigned; JSON
\* that is not an object has no get() and raises AttributeError.
Config_load(file, cfg) ==
    CASE file.kind = "missing" ->
            [config |-> cfg, notes |-> <<>>, raised |-> FALSE]
      [] file.kind = "malformed" ->
            [config |-> cfg,
             notes |-> <<"XLAP: Invalid Configuration">>, raised |-> FALSE]
      [] file.kind = "not_object" ->
            [config |-> cfg, notes |-> <<>>, raised |-> TRUE]
      [] OTHER ->
            [config |-> [key \in ConfigKeys |-> DataGet(file, key, cfg[key])],
             notes |-> <<>>, raised |-> FALSE]

\* ---- the external commands run through _run_command ----
\* One entry of the log of commands issued by an operation.
Call(cmd, window, action, prop, n1, n2) ==
    [cmd |-> cmd, window |-> window, action |-> action, prop |-> prop,
     n1 |-> n1, n2 |-> n2]

\* xdotool getwindowfocus
FocusCall == Call("getwindowfocus", None, None, None, 0, 0)

\* xdotool getwindowgeometry <window>
GeometryCall(window_id) == Call("getwindowgeometry", window_id, None, None, 0, 0)

\* xrandr
XrandrCall == Call("xrandr", None, None, None, 0, 0)

\* xdotool windowstate <action> <prop> <window>
StateCall(window_id, state_action, state_prop) ==
    Call("windowstate", window_id, state_action, state_prop, 0, 0)

\* xdotool windowsize <window> <width> <height>
SizeCall(window_id, width, height) ==
    Call("windowsize", window_id, None, None, width, height)

\* xdotool windowmove <window> <left> <top>
MoveCall(window_id, left, top) ==
    Call("windowmove", window_id, None, None, left, top)

\* Output of a command that failed or printed nothing ("" in the code); for
\* getwindowgeometry the output is otherwise the printed position <<x, y>>,
\* for xrandr the sequence of connected modes <<w, h, ox, oy>>.
NoOutput == <<>>

\* Optional results that are absent
NoPos == <<>>

NoDisplay ==
    [x_start |-> -1, x_end |-> -1, y_start |-> -1, y_end |-> -1,
     offset_left |-> -1, offset_top |-> -1, width |-> -1, height |-> -1]

\* ---- the threads that call into XlapCore ----
\* The HotkeyListener thread and the GTK main thread of the menu
Threads == {"hotkey", "menu"}

\* Operations a thread runs before it stops taking new ones
OpsPerThread == 1

\* A thread outside any operation. The fields are the locals of the
\* operation in progress: the layout being applied, the focused window, the
\* direction pressed, the layout read from the state map, the position and
\* the display found, the outputs read; failed names the steps whose
\* command failed, runs counts the operations begun (up to OpsPerThread) and
\* start is the layout the state map named when the program started.
ThreadRec(start) ==
    [pc |-> "idle", op |-> None, layout |-> None, window_id |-> None,
     direction |-> None, current_layout |-> None, raised |-> FALSE,
     pos |-> NoPos, display |-> NoDisplay, geometry |-> NoOutput,
     xrandr |-> NoOutput, failed |-> {}, runs |-> 0, start |-> start]

NoThreads == [t \in Threads |-> ThreadRec(None)]

\* get_active_window_id: the output of getwindowfocus, or None when empty
get_active_window_id(focus) == IF focus = "" THEN None ELSE focus

\* get_window_position: the pattern "Position: (\d+),(\d+)" matches digits
\* only, so a printed negative coordinate gives no match.
get_window_position(output) ==
    IF output = NoOutput THEN NoPos
    ELSE IF output[1] < 0 \/ output[2] < 0 THEN NoPos
    ELSE <<Max(0, output[1]), Max(0, output[2])>>

\* One display dict built from a matched xrandr line
Display(w, h, ox, oy) ==
    [x_start |-> ox, x_end |-> ox + w, y_start |-> oy, y_end |-> oy + h,
     offset_left |-> ox, offset_top |-> oy, width |-> w, height |-> h]

\* get_connected_displays: one dict per connected line, in output order
get_connected_displays(output) ==
    [i \in 1..Len(output) |->
        Display(output[i][1], output[i][2], output[i][3], output[i][4])]

\* Variant of Contains: the far edges belong to the display
Contains_Closed(display, left, top) ==
    /\ display.x_start <= left
    /\ left <= display.x_end
    /\ display.y_start <= top
    /\ top <= display.y_end

\* The containment test of the loop in get_display_for_window
Contains(display, left, top) ==
    /\ display.x_start <= left
    /\ left < display.x_end
    /\ display.y_start <= top
    /\ top < display.y_end

\* Indices of the displays of the loop that contain the position
Hits(displays, pos) ==
    {i \in 1..Len(displays) : Contains(displays[i], pos[1], pos[2])}

\* Variant of get_display_for_window: no fallback to the first display
get_display_for_window_NoFallback(geometry, xrandr) ==
    LET pos == get_window_position(geometry)
        displays == get_connected_displays(xrandr)
    IN  IF pos = NoPos THEN NoDisplay
        ELSE IF Hits(displays, pos) # {}
             THEN displays[SetMin(Hits(displays, pos))]
        ELSE NoDisplay

\* Variant of get_display_for_window: the fallback is the last display
get_display_for_window_LastFallback(geometry, xrandr) ==
    LET pos == get_window_position(geometry)
        displays == get_connected_displays(xrandr)
    IN  IF pos = NoPos THEN NoDisplay
        ELSE IF Hits(displays, pos) # {}
             THEN displays[SetMin(Hits(displays, pos))]
        ELSE IF Len(displays) > 0 THEN displays[Len(displays)]
        ELSE NoDisplay

\* get_display_for_window: the display returned (NoDisplay for None)
get_display_for_window(geometry, xrandr) ==
    LET pos == get_window_position(geometry)
        displays == get_connected_displays(xrandr)
    IN  IF pos = NoPos THEN NoDisplay
        ELSE IF Hits(displays, pos) # {}
             THEN displays[SetMin(Hits(displays, pos))]
        ELSE IF Len(displays) > 0 THEN displays[1]
        ELSE NoDisplay

\* get_display_for_window: the commands it runs, in order
DisplayQueries(window_id, geometry, xrandr) ==
    LET pos == get_window_position(geometry)
        displays == get_connected_displays(xrandr)
    IN  IF pos = NoPos THEN <<GeometryCall(window_id)>>
        ELSE IF Hits(displays, pos) # {}
             THEN <<GeometryCall(window_id), XrandrCall>>
        ELSE <<GeometryCall(window_id), XrandrCall, XrandrCall>>

\* Variant of RecordedIndex: an unknown name gets the index past the end
RecordedIndex_PastEnd(layout) ==
    IF ~InList(LAYOUT_SEQUENCE, layout) THEN Len(LAYOUT_SEQUENCE)
    ELSE ListIndex(LAYOUT_SEQUENCE, layout)

\* Variant of RecordedIndex: an unknown name is recorded as Maximized
RecordedIndex_Maximized(layout) ==
    IF ~InList(LAYOUT_SEQUENCE, layout) THEN 1
    ELSE ListIndex(LAYOUT_SEQUENCE, layout)

\* apply_layout: the index stored in _window_state for a layout name
RecordedIndex(layout) ==
    IF ~InList(LAYOUT_SEQUENCE, layout) THEN 0
    ELSE ListIndex(LAYOUT_SEQUENCE, layout)

\* Variant of SetState: every window of the map gets the index
SetState_All(ws, window_id, index) ==
    [w \in (DOMAIN ws) \cup {window_id} |-> index]

\* Variant of SetState: the entries of the other windows are dropped
SetState_Reset(ws, window_id, index) ==
    [w \in {window_id} |-> index]

\* apply_layout: _window_state[window_id] = index
SetState(ws, window_id, index) ==
    [w \in (DOMAIN ws) \cup {window_id} |->
        IF w = window_id THEN index ELSE ws[w]]

\* Variant of Bounds: the window margins are taken off both sides
Bounds_Symmetric(geom, display, cfg) ==
    LET screen_w == display.width - cfg.screen_margin_right
        screen_h == display.height - cfg.screen_margin_bottom
    IN  [width |-> IntMul(screen_w, geom[3]) - 2 * cfg.window_margin_left,
         height |-> IntMul(screen_h, geom[4]) - 2 * cfg.window_margin_top,
         left |-> display.offset_left + IntMul(screen_w, geom[1])
                    + cfg.window_margin_left,
         top |-> display.offset_top + IntMul(screen_h, geom[2])
                    + cfg.window_margin_top]

\* Variant of Bounds: the size is clamped at zero
Bounds_Clamped(geom, display, cfg) ==
    LET screen_w == display.width - cfg.screen_margin_right
        screen_h == display.height - cfg.screen_margin_bottom
    IN  [width |-> Max(0, IntMul(screen_w, geom[3]) - cfg.window_margin_left),
         height |-> Max(0, IntMul(screen_h, geom[4]) - cfg.window_margin_top),
         left |-> display.offset_left + IntMul(screen_w, geom[1])
                    + cfg.window_margin_left,
         top |-> display.offset_top + IntMul(screen_h, geom[2])
                    + cfg.window_margin_top]

\* apply_layout: screen_w, screen_h, width, height, left, top
Bounds(geom, display, cfg) ==
    LET screen_w == display.width - cfg.screen_margin_right
        screen_h == display.height - cfg.screen_margin_bottom
    IN  [width |-> IntMul(screen_w, geom[3]) - cfg.window_margin_left,
         height |-> IntMul(screen_h, geom[4]) - cfg.window_margin_top,
         left |-> display.offset_left + IntMul(screen_w, geom[1])
                    + cfg.window_margin_left,
         top |-> display.offset_top + IntMul(screen_h, geom[2])
                    + cfg.window_margin_top]

\* apply_layout: the three commands of the fractional branch
GeometryCalls(window_id, b) ==
    <<StateCall(window_id, "--remove", "fullscreen,maximized_vert,maximized_horz"),
      SizeCall(window_id, b.width, b.height),
      MoveCall(window_id, b.left, b.top)>>

\* apply_layout: Notify.send(layout) when notify_on_apply_layout is set
ApplyNote(layout, cfg) ==
    IF cfg.notify_on_apply_layout THEN <<layout>> ELSE <<>>

\* Result of an operation: the new state map, the commands issued, the
\* notifications sent, and what the display lookup saw and returned.
Outcome(ws, cs, ns, display, geometry, xrandr) ==
    [window_state |-> ws, calls |-> cs, notes |-> ns, display |-> display,
     geometry |-> geometry, xrandr |-> xrandr]

\* Variant of apply_layout_body: the display is looked up before the layout
\* is told apart
apply_layout_body_LookupFirst(layout, window_id, geometry, xrandr, ws, cfg) ==
    LET ws1 == SetState(ws, window_id, RecordedIndex(layout))
        display == get_display_for_window(geometry, xrandr)
        queries == DisplayQueries(window_id, geometry, xrandr)
    IN  IF display = NoDisplay
        THEN Outcome(ws1, queries, <<"Layout Error">>, display, geometry, xrandr)
        ELSE IF layout = FULL_SCREEN
        THEN Outcome(ws1,
                     queries \o <<StateCall(window_id, "--add", "fullscreen")>>,
                     ApplyNote(layout, cfg), display, geometry, xrandr)
        ELSE IF layout = MAXIMIZED
        THEN Outcome(ws1,
                     queries \o
                     <<StateCall(window_id, "--remove", "fullscreen"),
                       StateCall(window_id, "--add", "maximized_vert,maximized_horz")>>,
                     ApplyNote(layout, cfg), display, geometry, xrandr)
        ELSE IF layout \notin DOMAIN LAYOUT_GEOMETRY
        THEN Outcome(ws1, queries, <<>>, display, geometry, xrandr)
        ELSE Outcome(ws1,
                     queries \o GeometryCalls(window_id,
                         Bounds(LAYOUT_GEOMETRY[layout], display, cfg)),
                     ApplyNote(layout, cfg), display, geometry, xrandr)

\* Variant of apply_layout_body: the index is recorded only once a display
\* was found
apply_layout_body_RecordLate(layout, window_id, geometry, xrandr, ws, cfg) ==
    LET ws1 == SetState(ws, window_id, RecordedIndex(layout))
        display == get_display_for_window(geometry, xrandr)
        queries == DisplayQueries(window_id, geometry, xrandr)
    IN  IF layout = FULL_SCREEN
        THEN Outcome(ws1, <<StateCall(window_id, "--add", "fullscreen")>>,
                     ApplyNote(layout, cfg), NoDisplay, NoOutput, NoOutput)
        ELSE IF layout = MAXIMIZED
        THEN Outcome(ws1,
                     <<StateCall(window_id, "--remove", "fullscreen"),
                       StateCall(window_id, "--add", "maximized_vert,maximized_horz")>>,
                     ApplyNote(layout, cfg), NoDisplay, NoOutput, NoOutput)
        ELSE IF display = NoDisplay
        THEN Outcome(ws, queries, <<"Layout Error">>, display, geometry, xrandr)
        ELSE IF layout \notin DOMAIN LAYOUT_GEOMETRY
        THEN Outcome(ws1, queries, <<>>, display, geometry, xrandr)
        ELSE Outcome(ws1,
                     queries \o GeometryCalls(window_id,
                         Bounds(LAYOUT_GEOMETRY[layout], display, cfg)),
                     ApplyNote(layout, cfg), display, geometry, xrandr)

\* apply_layout past the window_id guard: record the index, then actuate.
\* The outputs the commands would print are given; those of the commands
\* the special layouts never run are left out of the outcome.
apply_layout_body(layout, window_id, geometry, xrandr, ws, cfg) ==
    LET ws1 == SetState(ws, window_id, RecordedIndex(layout))
        display == get_display_for_window(geometry, xrandr)
        queries == DisplayQueries(window_id, geometry, xrandr)
    IN  IF layout = FULL_SCREEN
        THEN Outcome(ws1, <<StateCall(window_id, "--add", "fullscreen")>>,
                     ApplyNote(layout, cfg), NoDisplay, NoOutput, NoOutput)
        ELSE IF layout = MAXIMIZED
        THEN Outcome(ws1,
                     <<StateCall(window_id, "--remove", "fullscreen"),
                       StateCall(window_id, "--add", "maximized_vert,maximized_horz")>>,
                     ApplyNote(layout, cfg), NoDisplay, NoOutput, NoOutput)
        ELSE IF display = NoDisplay
        THEN Outcome(ws1, queries, <<"Layout Error">>, display, geometry, xrandr)
        ELSE IF layout \notin DOMAIN LAYOUT_GEOMETRY
        THEN Outcome(ws1, queries, <<>>, display, geometry, xrandr)
        ELSE Outcome(ws1,
                     queries \o GeometryCalls(window_id,
                         Bounds(LAYOUT_GEOMETRY[layout], display, cfg)),
                     ApplyNote(layout, cfg), display, geometry, xrandr)

\* An operation that returns before doing anything
Unchanged(ws) == Outcome(ws, <<>>, <<>>, NoDisplay, NoOutput, NoOutput)

\* Variant of apply_layout: the window_id guard is missing
apply_layout_NoGuard(layout, window_id, geometry, xrandr, ws, cfg) ==
    apply_layout_body(layout, window_id, geometry, xrandr, ws, cfg)

\* apply_layout(layout, window_id): nothing happens without a window id
apply_layout(layout, window_id, geometry, xrandr, ws, cfg) ==
    IF window_id = None THEN Unchanged(ws)
    ELSE apply_layout_body(layout, window_id, geometry, xrandr, ws, cfg)

\* modify_layout: the index read from _window_state, Maximized by default
LastLayoutIndex(ws, active_window) ==
    IF active_window \in DOMAIN ws THEN ws[active_window]
    ELSE ListIndex(LAYOUT_SEQUENCE, MAXIMIZED)

\* Variant of NewLayout: without a specific transition the layout is kept
NewLayout_Sticky(current_layout, direction) ==
    IF DictGet(LAYOUT_TRANSITIONS, <<current_layout, direction>>) # None
    THEN DictGet(LAYOUT_TRANSITIONS, <<current_layout, direction>>)
    ELSE current_layout

\* Variant of NewLayout: the specific transitions are never consulted
NewLayout_DefaultOnly(current_layout, direction) ==
    DictGet(DEFAULT_TRANSITIONS, direction)

\* modify_layout: the specific transition, else the default of the direction
NewLayout(current_layout, direction) ==
    IF DictGet(LAYOUT_TRANSITIONS, <<current_layout, direction>>) # None
    THEN DictGet(LAYOUT_TRANSITIONS, <<current_layout, direction>>)
    ELSE DictGet(DEFAULT_TRANSITIONS, direction)

\* What an operation leaves in "last" besides its outcome
Last(op, layout, window_id, direction, current_layout, raised, r) ==
    [op |-> op, layout |-> layout, window_id |-> window_id,
     direction |-> direction, current_layout |-> current_layout,
     raised |-> raised, display |-> r.display, geometry |-> r.geometry,
     xrandr |-> r.xrandr, file |-> NoFile]

\* Commit an outcome to the state
Commit(r, prefix) ==
    /\ window_state' = r.window_state
    /\ calls' = prefix \o r.calls
    /\ notes' = r.notes
    /\ UNCHANGED <<config, threads>>

\* ---- operations ----
\* XlapCore.apply_layout(layout, window_id)
ApplyLayout(layout, window_id, geometry, xrandr) ==
    LET r == apply_layout(layout, window_id, geometry, xrandr,
                          window_state, config)
    IN  /\ Commit(r, <<>>)
        /\ last' = Last("apply_layout", layout, window_id, None, None, FALSE, r)

\* XlapCore.modify_layout(direction), bound to the hotkeys and snap items
ModifyLayout(direction, focus, geometry, xrandr) ==
    LET active_window == get_active_window_id(focus)
        last_layout_index == LastLayoutIndex(window_state, active_window)
        raised == ~IndexInRange(LAYOUT_SEQUENCE, last_layout_index)
        current_layout == ListItem(LAYOUT_SEQUENCE, last_layout_index)
        new_layout == NewLayout(current_layout, direction)
    IN  IF active_window = None
        THEN /\ Commit(Unchanged(window_state), <<FocusCall>>)
             /\ last' = Last("modify_layout", None, None, direction, None,
                             FALSE, Unchanged(window_state))
        ELSE IF raised
        THEN /\ Commit(Unchanged(window_state), <<FocusCall>>)
             /\ last' = Last("modify_layout", None, active_window, direction,
                             None, TRUE, Unchanged(window_state))
        ELSE IF new_layout = None
        THEN /\ Commit(Unchanged(window_state), <<FocusCall>>)
             /\ last' = Last("modify_layout", None, active_window, direction,
                             current_layout, FALSE, Unchanged(window_state))
        ELSE LET r == apply_layout(new_layout, active_window, geometry,
                                   xrandr, window_state, config)
             IN  /\ Commit(r, <<FocusCall>>)
                 /\ last' = Last("modify_layout", new_layout, active_window,
                                 direction, current_layout, FALSE, r)

\* IndicatorApp._on_layout_activate(layout_name): a layout item of the menu
OnLayoutActivate(layout_name, focus, geometry, xrandr) ==
    LET active_window == get_active_window_id(focus)
        r == IF active_window = None THEN Unchanged(window_state)
             ELSE apply_layout(layout_name, active_window, geometry, xrandr,
                               window_state, config)
    IN  /\ Commit(r, <<FocusCall>>)
        /\ last' = Last("_on_layout_activate", layout_name, active_window,
                        None, None, FALSE, r)

\* ---- the operations step by step ----
\* How a command ended: it printed its output, it exited with an error
\* (CalledProcessError), or the program is not installed (FileNotFoundError)
Results == {"ok", "failed", "missing"}

\* _run_command: the output of the command, empty when it failed
RunCommand(result, output, empty) == IF result = "ok" THEN output ELSE empty

\* _run_command: the notification sent when the program is not found
CommandNote(program, result) ==
    IF result # "missing" THEN <<>>
    ELSE IF program = "xrandr" THEN <<"Error: Command 'xrandr' not found.">>
    ELSE <<"Error: Command 'xdotool' not found.">>

\* The ways apply_layout ends: past the last branch, at the return after
\* "Layout Error", or at another return without a notification
Terminal == {"return", "error", "return_early"}

\* Variant of NextPc: the index is recorded after the last command
NextPc_RecordLast(pc, layout, found) ==
    LET resolved == IF layout \in DOMAIN LAYOUT_GEOMETRY THEN "clear"
                    ELSE "return_early"
    IN  CASE pc = "call" ->
                IF layout = FULL_SCREEN THEN "add_fullscreen"
                ELSE IF layout = MAXIMIZED THEN "remove_fullscreen"
                ELSE "position"
          [] pc = "record" -> "return"
          [] pc = "add_fullscreen" -> "record"
          [] pc = "remove_fullscreen" -> "add_maximized"
          [] pc = "add_maximized" -> "record"
          [] pc = "position" -> IF found THEN "listing" ELSE "error"
          [] pc = "listing" -> IF found THEN resolved ELSE "fallback"
          [] pc = "fallback" -> IF found THEN resolved ELSE "error"
          [] pc = "clear" -> "size"
          [] pc = "size" -> "move"
          [] pc = "move" -> "record"

\* Variant of NextPc: a command that fails ends the operation
NextPc_AbortOnFailure(pc, layout, found) ==
    LET resolved == IF layout \in DOMAIN LAYOUT_GEOMETRY THEN "clear"
                    ELSE "return_early"
    IN  CASE pc = "call" -> "record"
          [] pc = "record" ->
                IF layout = FULL_SCREEN THEN "add_fullscreen"
                ELSE IF layout = MAXIMIZED THEN "remove_fullscreen"
                ELSE "position"
          [] pc = "add_fullscreen" -> IF found THEN "return" ELSE "error"
          [] pc = "remove_fullscreen" ->
                IF found THEN "add_maximized" ELSE "error"
          [] pc = "add_maximized" -> IF found THEN "return" ELSE "error"
          [] pc = "position" -> IF found THEN "listing" ELSE "error"
          [] pc = "listing" -> IF found THEN resolved ELSE "fallback"
          [] pc = "fallback" -> IF found THEN resolved ELSE "error"
          [] pc = "clear" -> IF found THEN "size" ELSE "error"
          [] pc = "size" -> IF found THEN "move" ELSE "error"
          [] pc = "move" -> IF found THEN "return" ELSE "error"

\* The control flow of apply_layout for a non-empty window id: the step that
\* follows step pc. found tells whether a query gave what it was asked for
\* (a position, a containing display, any display) and for the windowstate,
\* windowsize and windowmove commands whether the command succeeded, which
\* the code never looks at.
NextPc(pc, layout, found) ==
    LET resolved == IF layout \in DOMAIN LAYOUT_GEOMETRY THEN "clear"
                    ELSE "return_early"
    IN  CASE pc = "call" -> "record"
          [] pc = "record" ->
                IF layout = FULL_SCREEN THEN "add_fullscreen"
                ELSE IF layout = MAXIMIZED THEN "remove_fullscreen"
                ELSE "position"
          [] pc = "add_fullscreen" -> "return"
          [] pc = "remove_fullscreen" -> "add_maximized"
          [] pc = "add_maximized" -> "return"
          [] pc = "position" -> IF found THEN "listing" ELSE "error"
          [] pc = "listing" -> IF found THEN resolved ELSE "fallback"
          [] pc = "fallback" -> IF found THEN resolved ELSE "error"
          [] pc = "clear" -> "size"
          [] pc = "size" -> "move"
          [] pc = "move" -> "return"

\* The notifications sent where apply_layout ends
EndNotes(np, layout, cfg) ==
    CASE np = "return" -> ApplyNote(layout, cfg)
      [] np = "error" -> <<"Layout Error">>
      [] OTHER -> <<>>

\* No thread is inside an operation
AllIdle == \A t \in Threads : threads[t].pc = "idle"

\* The steps whose command failed, this one included when it did
Failed(th, result) ==
    IF result = "ok" THEN th.failed ELSE th.failed \cup {th.pc}

\* One step of thread t: its locals become th1, it goes on at np (or ends
\* there), having run the commands cs, sent ns and left the state map ws1.
\* The locals stay readable in the thread until it enters its next operation.
Step(t, th1, np, cs, ns, ws1) ==
    /\ window_state' = ws1
    /\ calls' = calls \o cs
    /\ notes' = notes \o ns \o EndNotes(np, th1.layout, config)
    /\ threads' = [threads EXCEPT ![t] =
            [th1 EXCEPT !.pc = IF np \in Terminal THEN "idle" ELSE np]]
    /\ UNCHANGED <<config, last>>

\* A thread enters an operation; the log starts afresh when no other
\* operation is in progress
Enter(t, op, layout, direction) ==
    /\ threads[t].pc = "idle"
    /\ threads' = [threads EXCEPT ![t] =
            [ThreadRec(threads[t].start) EXCEPT
                !.pc = "focus", !.op = op, !.layout = layout,
                !.direction = direction,
                !.runs = IF threads[t].runs < OpsPerThread
                         THEN threads[t].runs + 1 ELSE OpsPerThread]]
    /\ calls' = IF AllIdle THEN <<>> ELSE calls
    /\ notes' = IF AllIdle THEN <<>> ELSE notes
    /\ UNCHANGED <<window_state, config, last>>

\* A hotkey or a snap item calls modify_layout(direction)
ModifyLayoutCalled(t, direction) ==
    Enter(t, "modify_layout", None, direction)

\* A layout item of the menu calls _on_layout_activate(layout_name)
LayoutActivated(t, layout_name) ==
    Enter(t, "_on_layout_activate", layout_name, None)

\* get_active_window_id() in modify_layout and _on_layout_activate
StepFocus(t, result, focus) ==
    LET th == threads[t]
        active_window == get_active_window_id(RunCommand(result, focus, ""))
        th1 == [th EXCEPT !.window_id = active_window,
                          !.failed = Failed(th, result)]
        np == IF active_window = None THEN "return_early"
              ELSE IF th.op = "modify_layout" THEN "read"
              ELSE NextPc("call", th.layout, TRUE)
    IN  /\ th.pc = "focus"
        /\ Step(t, th1, np, <<FocusCall>>, CommandNote("xdotool", result),
                window_state)

\* modify_layout: read the recorded index and choose the new layout
StepRead(t) ==
    LET th == threads[t]
        last_layout_index == LastLayoutIndex(window_state, th.window_id)
        raised == ~IndexInRange(LAYOUT_SEQUENCE, last_layout_index)
        current_layout == ListItem(LAYOUT_SEQUENCE, last_layout_index)
        new_layout == NewLayout(current_layout, th.direction)
    IN  /\ th.pc = "read"
        /\ IF raised
           THEN Step(t, [th EXCEPT !.raised = TRUE], "return_early",
                     <<>>, <<>>, window_state)
           ELSE IF new_layout = None
           THEN Step(t, [th EXCEPT !.current_layout = current_layout],
                     "return_early", <<>>, <<>>, window_state)
           ELSE Step(t, [th EXCEPT !.current_layout = current_layout,
                                   !.layout = new_layout],
                     NextPc("call", new_layout, TRUE), <<>>, <<>>,
                     window_state)

\* apply_layout: _window_state[window_id] = the index of the layout
StepRecord(t) ==
    LET th == threads[t]
    IN  /\ th.pc = "record"
        /\ Step(t, th, NextPc("record", th.layout, TRUE), <<>>, <<>>,
                SetState(window_state, th.window_id, RecordedIndex(th.layout)))

\* apply_layout: one _set_window_state call
StepState(t, result) ==
    LET th == threads[t]
        call == CASE th.pc = "add_fullscreen" ->
                        StateCall(th.window_id, "--add", "fullscreen")
                  [] th.pc = "remove_fullscreen" ->
                        StateCall(th.window_id, "--remove", "fullscreen")
                  [] th.pc = "add_maximized" ->
                        StateCall(th.window_id, "--add",
                                  "maximized_vert,maximized_horz")
                  [] th.pc = "clear" ->
                        StateCall(th.window_id, "--remove",
                                  "fullscreen,maximized_vert,maximized_horz")
    IN  /\ th.pc \in {"add_fullscreen", "remove_fullscreen", "add_maximized",
                      "clear"}
        /\ Step(t, [th EXCEPT !.failed = Failed(th, result)],
                NextPc(th.pc, th.layout, result = "ok"), <<call>>,
                CommandNote("xdotool", result), window_state)

\* get_display_for_window: get_window_position(window_id)
StepPosition(t, result, geometry) ==
    LET th == threads[t]
        output == RunCommand(result, geometry, NoOutput)
        pos == get_window_position(output)
    IN  /\ th.pc = "position"
        /\ Step(t, [th EXCEPT !.pos = pos, !.geometry = output,
                              !.failed = Failed(th, result)],
                NextPc("position", th.layout, pos # NoPos),
                <<GeometryCall(th.window_id)>>,
                CommandNote("xdotool", result), window_state)

\* get_display_for_window: get_connected_displays() for the loop, and again
\* for the fallback when no display of the loop contains the position
StepListing(t, result, xrandr) ==
    LET th == threads[t]
        output == RunCommand(result, xrandr, NoOutput)
        displays == get_connected_displays(output)
        hits == Hits(displays, th.pos)
        found == IF th.pc = "listing" THEN hits # {} ELSE Len(displays) > 0
        display == IF ~found THEN NoDisplay
                   ELSE IF th.pc = "listing" THEN displays[SetMin(hits)]
                   ELSE displays[1]
    IN  /\ th.pc \in {"listing", "fallback"}
        /\ Step(t, [th EXCEPT !.display = display, !.xrandr = output,
                              !.failed = Failed(th, result)],
                NextPc(th.pc, th.layout, found), <<XrandrCall>>,
                CommandNote("xrandr", result), window_state)

\* apply_layout: xdotool windowsize with the computed width and height
StepSize(t, result) ==
    LET th == threads[t]
        b == Bounds(LAYOUT_GEOMETRY[th.layout], th.display, config)
    IN  /\ th.pc = "size"
        /\ Step(t, [th EXCEPT !.failed = Failed(th, result)],
                NextPc("size", th.layout, result = "ok"),
                <<SizeCall(th.window_id, b.width, b.height)>>,
                CommandNote("xdotool", result), window_state)

\* apply_layout: xdotool windowmove with the computed left and top
StepMove(t, result) ==
    LET th == threads[t]
        b == Bounds(LAYOUT_GEOMETRY[th.layout], th.display, config)
    IN  /\ th.pc = "move"
        /\ Step(t, [th EXCEPT !.failed = Failed(th, result)],
                NextPc("move", th.layout, result = "ok"),
                <<MoveCall(th.window_id, b.left, b.top)>>,
                CommandNote("xdotool", result), window_state)

\* ---- inputs ----
\* Window ids as printed by xdotool
WindowIds == {"101", "102"}

\* A name that is not in LAYOUT_SEQUENCE
UnknownLayout == "Unknown Layout"

LayoutNames == {LAYOUT_SEQUENCE[i] : i \in 1..Len(LAYOUT_SEQUENCE)}

\* Every name apply_layout may be called with
LayoutArgs == LayoutNames \cup {UnknownLayout}

\* IndicatorApp.MENU_STRUCTURE: the labels of the items of type "layout"
MenuLayouts ==
    {FULL_SCREEN, MAXIMIZED, ALMOST_MAXIMIZED,
     COL_50_LEFT, COL_50_RIGHT, COL_66_LEFT, COL_66_RIGHT,
     COL_33_LEFT, COL_33_CENTER, COL_33_RIGHT,
     ROW_50_TOP, ROW_50_BOTTOM,
     CELL_50_LEFT_TOP, CELL_50_RIGHT_TOP,
     CELL_50_LEFT_BOTTOM, CELL_50_RIGHT_BOTTOM}

\* The empty dict of XlapCore.__init__
EmptyState == [w \in {} |-> 0]

InitLast ==
    Last("init", None, None, None, None, FALSE, Unchanged(EmptyState))

\* ---- main specification: two windows, every layout name ----
\* xrandr prints one 1920x1080 display, or none
OneDisplay == <<(<<1920, 1080, 0, 0>>)>>

MainXrandr == {<<>>, OneDisplay}

\* main(): Config.load() without a settings file, then XlapCore()
Init ==
    /\ window_state = EmptyState
    /\ config = DefaultConfig
    /\ calls = <<>>
    /\ notes = <<>>
    /\ last = InitLast
    /\ threads = NoThreads

\* The names applied to the second window; the first one gets every name
SecondLayouts == {UnknownLayout, MAXIMIZED, COL_33_CENTER}

ApplyArgs ==
    (LayoutArgs \X {"101", None}) \cup (SecondLayouts \X {"102"})

ApplyStep ==
    \E args \in ApplyArgs :
        ApplyLayout(args[1], args[2], <<0, 0>>, OneDisplay)

ModifyStep ==
    \E direction \in Directions, focus \in WindowIds \cup {""},
       xrandr \in MainXrandr :
        ModifyLayout(direction, focus, <<0, 0>>, xrandr)

Next == ApplyStep \/ ModifyStep

Spec == Init /\ [][Next]_vars

\* ---- display specification: one window, every display arrangement ----
MaxDisplays == 2

\* Connected modes <<w, h, ox, oy>>: two monitors side by side
DisplayModes == {<<1920, 1080, 0, 0>>, <<1920, 1080, 1920, 0>>}

\* xrandr outputs: up to MaxDisplays distinct modes in any order
XrandrOutputs ==
    {s \in UNION {[1..n -> DisplayModes] : n \in 0..MaxDisplays} :
        \A i, j \in 1..Len(s) : i # j => s[i] # s[j]}

\* getwindowgeometry outputs: a failure, or a printed position
GeometryOutputs ==
    {NoOutput, <<-1, 0>>, <<0, 0>>, <<1920, 0>>, <<3840, 0>>, <<0, 1080>>}

DisplayLayouts == {COL_50_LEFT, MAXIMIZED, UnknownLayout}

DisplayApplyStep ==
    \E layout \in DisplayLayouts, window_id \in {"101", None},
       geometry \in GeometryOutputs, xrandr \in XrandrOutputs :
        ApplyLayout(layout, window_id, geometry, xrandr)

DisplayModifyStep ==
    \E direction \in Directions, focus \in {"101", ""},
       geometry \in GeometryOutputs, xrandr \in XrandrOutputs :
        ModifyLayout(direction, focus, geometry, xrandr)

DisplayMenuStep ==
    \E layout_name \in MenuLayouts, focus \in {"101", ""} :
        OnLayoutActivate(layout_name, focus, <<0, 0>>, OneDisplay)

DisplayNext == DisplayApplyStep \/ DisplayModifyStep \/ DisplayMenuStep

SpecDisplay == Init /\ [][DisplayNext]_vars

\* ---- geometry specification: one window, every margin ----
MaxMargin == 1

\* Margins of the settings file: small ones and the default
Margins == (0..MaxMargin) \cup {DefaultConfig.window_margin_top}

GeomConfigs ==
    [window_margin_top : Margins,
     window_margin_left : Margins,
     screen_margin_bottom : Margins,
     screen_margin_right : Margins,
     notify_on_apply_layout : BOOLEAN,
     notify_on_launch : {TRUE}]

\* A large display at the origin and small ones away from it
GeomXrandr ==
    {OneDisplay, <<(<<4, 2, 1920, 0>>)>>, <<(<<3, 5, 0, 1080>>)>>}

\* main(): Config.load() of a settings file with these values, then XlapCore()
GeomInit ==
    /\ window_state = EmptyState
    /\ config \in GeomConfigs
    /\ calls = <<>>
    /\ notes = <<>>
    /\ last = InitLast
    /\ threads = NoThreads

GeomApplyStep ==
    \E layout \in LayoutArgs, xrandr \in GeomXrandr :
        ApplyLayout(layout, "101", <<0, 0>>, xrandr)

GeomNext == GeomApplyStep

SpecGeom == GeomInit /\ [][GeomNext]_vars

\* ---- containment specification: one window, overlapping displays too ----
\* Two monitors side by side and a smaller mirror of the first
ContainModes ==
    {<<1920, 1080, 0, 0>>, <<1920, 1080, 1920, 0>>, <<1280, 720, 0, 0>>}

ContainXrandr ==
    {s \in UNION {[1..n -> ContainModes] : n \in 0..MaxDisplays} :
        \A i, j \in 1..Len(s) : i # j => s[i] # s[j]}

ContainGeometry ==
    {NoOutput, <<0, 0>>, <<1279, 719>>, <<1280, 0>>, <<1919, 1079>>,
     <<1920, 0>>, <<0, 1080>>, <<3840, 0>>}

ContainLayouts == {FULL_SCREEN, MAXIMIZED, COL_50_LEFT, COL_50_RIGHT}

ContainApplyStep ==
    \E layout \in ContainLayouts, geometry \in ContainGeometry,
       xrandr \in ContainXrandr :
        ApplyLayout(layout, "101", geometry, xrandr)

ContainNext == ContainApplyStep

SpecContain == Init /\ [][ContainNext]_vars

\* ---- repeated application: the window is where the last call moved it ----
\* Margins of the settings file: none, the defaults, and larger than a display
IdemMargins == {0, DefaultConfig.window_margin_left, 2000}

IdemConfigs ==
    [window_margin_top : IdemMargins,
     window_margin_left : IdemMargins,
     screen_margin_bottom : {0, DefaultConfig.screen_margin_bottom},
     screen_margin_right : IdemMargins,
     notify_on_apply_layout : {FALSE},
     notify_on_launch : {TRUE}]

\* One monitor, and two monitors side by side in either order
IdemXrandr ==
    {OneDisplay,
     <<(<<1920, 1080, 0, 0>>), (<<1920, 1080, 1920, 0>>)>>,
     <<(<<1920, 1080, 1920, 0>>), (<<1920, 1080, 0, 0>>)>>}

IdemLayouts == {COL_50_LEFT, COL_50_RIGHT, ROW_50_BOTTOM, COL_66_RIGHT}

IdemGeometry == {<<0, 0>>, <<1920, 0>>}

\* What getwindowgeometry prints for a window left where windowmove put it
MovedTo(cs) ==
    LET moves == SelectSeq(cs, LAMBDA c : c.cmd = "windowmove")
    IN  IF moves = <<>> THEN NoOutput ELSE <<moves[1].n1, moves[1].n2>>

IdemInit ==
    /\ window_state = EmptyState
    /\ config \in IdemConfigs
    /\ calls = <<>>
    /\ notes = <<>>
    /\ last = InitLast
    /\ threads = NoThreads

IdemApplyStep ==
    \E layout \in IdemLayouts, geometry \in IdemGeometry,
       xrandr \in IdemXrandr :
        ApplyLayout(layout, "101", geometry, xrandr)

\* apply_layout called again with the same layout and the same displays
IdemReapplyStep ==
    /\ last.op = "apply_layout"
    /\ MovedTo(calls) # NoOutput
    /\ ApplyLayout(last.layout, last.window_id, MovedTo(calls), last.xrandr)

IdemNext == IdemApplyStep \/ IdemReapplyStep

SpecIdem == IdemInit /\ [][IdemNext]_vars

\* ---- settings: main() and the "Reload Config" item ----
\* Settings a file may carry in place of the defaults
OtherConfig ==
    [window_margin_top |-> 0,
     window_margin_left |-> 0,
     screen_margin_bottom |-> 0,
     screen_margin_right |-> 0,
     notify_on_apply_layout |-> TRUE,
     notify_on_launch |-> FALSE]

ConfigKeySets ==
    {{}, {"window_margin_top"},
     {"window_margin_left", "screen_margin_right", "notify_on_apply_layout"},
     ConfigKeys}

ConfigFiles ==
    {SettingsFile("missing", {}, DefaultConfig),
     SettingsFile("malformed", {}, DefaultConfig),
     SettingsFile("not_object", {}, DefaultConfig)}
    \cup {SettingsFile("object", keys, values) :
            keys \in ConfigKeySets \ {{}},
            values \in {DefaultConfig, OtherConfig}}
    \cup {SettingsFile("object", {}, DefaultConfig)}

\* The class attributes of Config before main() runs
ConfigInit ==
    /\ window_state = EmptyState
    /\ config = DefaultConfig
    /\ calls = <<>>
    /\ notes = <<>>
    /\ last = InitLast
    /\ threads = NoThreads

\* An exception left main(): the process has ended
Crashed == last.op = "main" /\ last.raised

\* main(): Config.load(), XlapCore(), and the launch notification
Main(file) ==
    LET r == Config_load(file, config)
    IN  /\ last.op = "init"
        /\ config' = r.config
        /\ notes' = IF r.raised THEN r.notes
                    ELSE r.notes \o (IF r.config.notify_on_launch
                                     THEN <<"Xlap launched">> ELSE <<>>)
        /\ window_state' = EmptyState
        /\ calls' = <<>>
        /\ UNCHANGED threads
        /\ last' = [Last("main", None, None, None, None, r.raised,
                         Unchanged(EmptyState)) EXCEPT !.file = file]

\* IndicatorApp._action_reload_config: Config.load() and a notification
ActionReloadConfig(file) ==
    LET r == Config_load(file, config)
    IN  /\ last.op # "init"
        /\ ~Crashed
        /\ config' = r.config
        /\ notes' = IF r.raised THEN r.notes
                    ELSE r.notes \o <<"Xlap Config Reloaded">>
        /\ calls' = <<>>
        /\ UNCHANGED <<window_state, threads>>
        /\ last' = [Last("_action_reload_config", None, None, None, None,
                         r.raised, Unchanged(window_state))
                        EXCEPT !.file = file]

MainStep == \E file \in ConfigFiles : Main(file)

ReloadStep == \E file \in ConfigFiles : ActionReloadConfig(file)

ConfigApplyStep ==
    /\ last.op # "init"
    /\ ~Crashed
    /\ \E layout \in {COL_50_LEFT, MAXIMIZED} :
            ApplyLayout(layout, "101", <<0, 0>>, OneDisplay)

ConfigNext == MainStep \/ ReloadStep \/ ConfigApplyStep

SpecConfig == ConfigInit /\ [][ConfigNext]_vars

\* ---- the menu thread alone: one operation at a time, command by command,
\* ---- every command free to fail
StepLayouts == {FULL_SCREEN, MAXIMIZED, COL_50_LEFT, UnknownLayout}

\* Positions inside the first monitor, inside the second, and right of both
StepGeometry == {<<0, 0>>, <<1920, 0>>, <<3840, 0>>}

StepXrandr ==
    {OneDisplay, <<(<<1920, 1080, 0, 0>>), (<<1920, 1080, 1920, 0>>)>>}

StepsBegin ==
    /\ AllIdle
    /\ \/ \E direction \in {"left", "up"} :
            ModifyLayoutCalled("menu", direction)
       \/ \E layout \in StepLayouts : LayoutActivated("menu", layout)

\* Every command ends in each of the three ways and prints each output
StepsNext ==
    \/ StepsBegin
    \/ \E t \in Threads, result \in Results, focus \in {"101", ""} :
            StepFocus(t, result, focus)
    \/ \E t \in Threads : StepRead(t)
    \/ \E t \in Threads : StepRecord(t)
    \/ \E t \in Threads, result \in Results : StepState(t, result)
    \/ \E t \in Threads, result \in Results, geometry \in StepGeometry :
            StepPosition(t, result, geometry)
    \/ \E t \in Threads, result \in Results, xrandr \in StepXrandr :
            StepListing(t, result, xrandr)
    \/ \E t \in Threads, result \in Results : StepSize(t, result)
    \/ \E t \in Threads, result \in Results : StepMove(t, result)

SpecSteps == Init /\ [][StepsNext]_vars

\* ---- the hotkey thread and the menu thread on one window ----
\* What the state map names for the window when the threads start
ThreadStarts == {None, COL_50_LEFT, ROW_50_TOP}

ThreadsInit ==
    \E start \in ThreadStarts :
        /\ window_state = IF start = None THEN EmptyState
                          ELSE SetState(EmptyState, "101", RecordedIndex(start))
        /\ config = DefaultConfig
        /\ calls = <<>>
        /\ notes = <<>>
        /\ last = InitLast
        /\ threads = [t \in Threads |-> ThreadRec(start)]

\* A hotkey is pressed: the listener thread calls modify_layout
HotkeyPressed ==
    /\ threads["hotkey"].runs < OpsPerThread
    /\ \E direction \in Directions : ModifyLayoutCalled("hotkey", direction)

\* A layout item of the menu is chosen
MenuLayoutChosen ==
    /\ threads["menu"].runs < OpsPerThread
    /\ \E layout \in {MAXIMIZED, COL_50_RIGHT} : LayoutActivated("menu", layout)

\* A snap item of the menu is chosen
MenuSnapChosen ==
    /\ threads["menu"].runs < OpsPerThread
    /\ \E direction \in {"left", "up"} : ModifyLayoutCalled("menu", direction)

\* Every command succeeds; one window has the focus, on one monitor
ThreadsNext ==
    \/ HotkeyPressed
    \/ MenuLayoutChosen
    \/ MenuSnapChosen
    \/ \E t \in Threads : StepFocus(t, "ok", "101")
    \/ \E t \in Threads : StepRead(t)
    \/ \E t \in Threads : StepRecord(t)
    \/ \E t \in Threads : StepState(t, "ok")
    \/ \E t \in Threads : StepPosition(t, "ok", <<0, 0>>)
    \/ \E t \in Threads : StepListing(t, "ok", OneDisplay)
    \/ \E t \in Threads : StepSize(t, "ok")
    \/ \E t \in Threads : StepMove(t, "ok")

SpecThreads == ThreadsInit /\ [][ThreadsNext]_vars

\* ---- properties ----
\* The layout the state map names for a window before a step, "Maximized"
\* when the window has no entry
LayoutBefore(w) ==
    IF w \in DOMAIN window_state THEN LAYOUT_SEQUENCE[window_state[w] + 1]
    ELSE "Maximized"

\* The layout the state map names for a window after a step
LayoutAfter(w) ==
    IF w \in DOMAIN window_state' THEN LAYOUT_SEQUENCE[window_state'[w] + 1]
    ELSE "none"

\* The layout the state map names for a window in the current state
LayoutNow(w) ==
    IF w \in DOMAIN window_state THEN LAYOUT_SEQUENCE[window_state[w] + 1]
    ELSE "none"

\* The commands of a log that change the window: state, resize, move
Actuations(cs) ==
    SelectSeq(cs, LAMBDA c : c.cmd \in {"windowstate", "windowsize", "windowmove"})

DefaultOf(d) ==
    CASE d = "left" -> "50% Left"
      [] d = "right" -> "50% Right"
      [] d = "up" -> "50% Top"
      [] d = "down" -> "50% Bottom"

\* A step of modify_layout(d) on a focused window
ModifiedFocused == last'.op = "modify_layout" /\ last'.window_id # None

C1_Step ==
    (/\ ModifiedFocused
     /\ <<LayoutBefore(last'.window_id), last'.direction>>
            \notin DOMAIN LAYOUT_TRANSITIONS)
    => /\ last'.layout = DefaultOf(last'.direction)
       /\ LayoutAfter(last'.window_id) = DefaultOf(last'.direction)
       /\ last'.display # NoDisplay =>
            Actuations(calls') =
                GeometryCalls(last'.window_id,
                    Bounds(LAYOUT_GEOMETRY[DefaultOf(last'.direction)],
                           last'.display, config))

\* C1: whenever modify_layout(d) runs on a focused window whose recorded
\* layout L (Maximized when nothing is recorded) has no entry (L, d) in
\* LAYOUT_TRANSITIONS, the layout applied and recorded for that window is
\* the default of d: left 50% Left, right 50% Right, up 50% Top, down 50% Bottom.
C1_DefaultTransition == [][C1_Step]_vars

\* A first press of "left" on the only window ever touched
C1_Witness ==
    /\ last.op = "modify_layout"
    /\ last.window_id = "101"
    /\ last.direction = "left"
    /\ last.current_layout = MAXIMIZED
    /\ DOMAIN window_state = {"101"}
    /\ LayoutNow("101") = "50% Left"
    /\ Len(Actuations(calls)) = 3

C2_Rules ==
    {<<"50% Left", "up", "50% Top Left">>,
     <<"50% Left", "down", "50% Bottom Left">>,
     <<"50% Right", "up", "50% Top Right">>,
     <<"50% Right", "down", "50% Bottom Right">>,
     <<"50% Top", "left", "50% Top Left">>,
     <<"50% Top", "right", "50% Top Right">>,
     <<"50% Bottom", "left", "50% Bottom Left">>,
     <<"50% Bottom", "right", "50% Bottom Right">>}

C2_Step ==
    \A rule \in C2_Rules :
        (/\ ModifiedFocused
         /\ LayoutBefore(last'.window_id) = rule[1]
         /\ last'.direction = rule[2])
        => /\ last'.layout = rule[3]
           /\ LayoutAfter(last'.window_id) = rule[3]
           /\ \A w \in DOMAIN window_state :
                w # last'.window_id => window_state'[w] = window_state[w]
           /\ last'.display # NoDisplay =>
                Actuations(calls') =
                    GeometryCalls(last'.window_id,
                        Bounds(LAYOUT_GEOMETRY[rule[3]], last'.display, config))

\* C2: for each of the eight keys (source, direction) of LAYOUT_TRANSITIONS,
\* modify_layout(direction) on a focused window recorded in the source
\* layout applies and records the listed corner cell, whatever the other
\* window's entry is and however the source layout was reached.
C2_ExplicitTransition == [][C2_Step]_vars

\* "50% Left" + up on one window while the other window is in a third
C2_Witness ==
    /\ last.op = "modify_layout"
    /\ last.window_id = "101"
    /\ last.direction = "up"
    /\ last.current_layout = COL_50_LEFT
    /\ LayoutNow("101") = "50% Top Left"
    /\ LayoutNow("102") = "33% Center"

\* C3: no modify_layout raises, every stored index is an index of
\* LAYOUT_SEQUENCE, and a modify_layout on a focused window leaves that window
\* recorded in the layout it chose, a name of LAYOUT_SEQUENCE.
C3_Total ==
    /\ ~last.raised
    /\ \A w \in DOMAIN window_state :
            window_state[w] \in 0..(Len(LAYOUT_SEQUENCE) - 1)
    /\ (last.op = "modify_layout" /\ last.window_id # None) =>
            /\ last.layout \in LayoutNames
            /\ LayoutNow(last.window_id) = last.layout

\* A modify_layout on a window recorded at index 0 while the other window
\* was given an unknown name
C3_Witness ==
    /\ last.op = "modify_layout"
    /\ last.window_id = "101"
    /\ last.current_layout = FULL_SCREEN
    /\ last.layout = COL_50_RIGHT
    /\ LayoutNow("102") = FULL_SCREEN
    /\ ~last.raised

\* The layout modify_layout(d) is to choose from a layout L
ExpectedNext(L, d) ==
    IF \E rule \in C2_Rules : rule[1] = L /\ rule[2] = d
    THEN (CHOOSE rule \in C2_Rules : rule[1] = L /\ rule[2] = d)[3]
    ELSE DefaultOf(d)

\* The last operation handed a fractional layout to apply_layout with a window
FractionalApplied ==
    /\ last.op \in {"apply_layout", "modify_layout", "_on_layout_activate"}
    /\ last.window_id # None
    /\ last.layout \in DOMAIN LAYOUT_GEOMETRY

C4_State ==
    (FractionalApplied /\ last.xrandr = <<>>)
    => /\ notes = <<"Layout Error">>
       /\ LayoutNow(last.window_id) = last.layout
       /\ Actuations(calls) = <<>>

C4_Step ==
    (/\ FractionalApplied
     /\ last.xrandr = <<>>
     /\ ModifiedFocused
     /\ last'.window_id = last.window_id)
    => /\ last'.current_layout = last.layout
       /\ last'.layout = ExpectedNext(last.layout, last'.direction)

\* C4: when a fractional layout reaches apply_layout with a window id while
\* xrandr reports no display, the "Layout Error" notification is sent, the
\* window is recorded in that layout, no windowstate, windowsize or
\* windowmove command is issued, and a modify_layout that follows on that
\* window resolves from the recorded layout.
C4_NoDisplayStillRecorded == []C4_State /\ [][C4_Step]_vars

\* apply_layout("50% Left") with a known position and no display
C4_Witness ==
    /\ last.op = "apply_layout"
    /\ last.window_id = "101"
    /\ last.layout = COL_50_LEFT
    /\ last.geometry = <<0, 0>>
    /\ last.xrandr = <<>>
    /\ notes = <<"Layout Error">>
    /\ LayoutNow("101") = "50% Left"

C5_Step ==
    (/\ last'.op \in {"apply_layout", "modify_layout"}
     /\ last'.window_id = None)
    => /\ window_state' = window_state
       /\ \A i \in 1..Len(calls') : calls'[i].cmd = "getwindowfocus"
       /\ last'.op = "apply_layout" => calls' = <<>>

\* C5: an apply_layout with an empty window id, and a modify_layout that gets
\* no focused window, leave the state map as it was and issue no windowstate,
\* windowsize, windowmove, getwindowgeometry or xrandr command.
C5_NoWindowNoOp == [][C5_Step]_vars

\* apply_layout with an empty id after a window was recorded
C5_Witness ==
    /\ last.op = "apply_layout"
    /\ last.window_id = None
    /\ last.layout = COL_50_LEFT
    /\ DOMAIN window_state = {"101"}
    /\ calls = <<>>

\* The last operation ran get_display_for_window
LookedUp ==
    /\ last.op \in {"apply_layout", "modify_layout", "_on_layout_activate"}
    /\ last.window_id # None
    /\ last.layout \notin {None, FULL_SCREEN, MAXIMIZED}

\* getwindowgeometry printed a position the code can read
PositionKnown(g) ==
    IF g = NoOutput THEN FALSE ELSE g[1] >= 0 /\ g[2] >= 0

\* The printed modes <<w, h, ox, oy>> whose rectangle contains the position
Containing(x, g) ==
    {i \in 1..Len(x) :
        /\ x[i][3] <= g[1] /\ g[1] < x[i][3] + x[i][1]
        /\ x[i][4] <= g[2] /\ g[2] < x[i][4] + x[i][2]}

\* A display dict is the one of a printed mode
IsMode(display, m) ==
    /\ display.width = m[1] /\ display.height = m[2]
    /\ display.offset_left = m[3] /\ display.offset_top = m[4]

C7_State ==
    (/\ last.op = "apply_layout"
     /\ last.window_id # None
     /\ last.layout \notin LayoutNames)
    => /\ window_state[last.window_id] = 0
       /\ LAYOUT_SEQUENCE[1] = "Full Screen"
       /\ Actuations(calls) = <<>>
       /\ ~last.raised

C7_Step ==
    (/\ last.op = "apply_layout"
     /\ last.window_id # None
     /\ last.layout \notin LayoutNames
     /\ ModifiedFocused
     /\ last'.window_id = last.window_id)
    => /\ ~last'.raised
       /\ last'.current_layout = "Full Screen"
       /\ last'.layout = DefaultOf(last'.direction)

\* C7: apply_layout with a window id and a name outside LAYOUT_SEQUENCE
\* records index 0, the index of "Full Screen", raises nothing and issues no
\* windowstate, windowsize or windowmove command; a modify_layout(d) that
\* follows on that window resolves from "Full Screen", to the default of d.
C7_UnknownLayoutIndexZero == []C7_State /\ [][C7_Step]_vars

\* An unknown name applied to a window on a display that was found
C7_Witness ==
    /\ last.op = "apply_layout"
    /\ last.window_id = "101"
    /\ last.layout = UnknownLayout
    /\ last.display # NoDisplay
    /\ window_state["101"] = 0
    /\ notes = <<>>

\* The last operation reached the geometry computation of apply_layout
GeometryApplied == FractionalApplied /\ last.display # NoDisplay

\* floor and truncation toward zero of n * a / GeomDen
FloorMul(n, a) == (n * a) \div GeomDen

TruncMul(n, a) ==
    IF n * a >= 0 THEN (n * a) \div GeomDen ELSE 0 - ((0 - n * a) \div GeomDen)

\* The bounds of a layout on a printed mode <<w, h, ox, oy>> under the
\* current margins, with Mul as the rounding product
BoundsWith(Mul(_, _), layout, m) ==
    LET geom == LAYOUT_GEOMETRY[layout]
        usableWidth == m[1] - config.screen_margin_right
        usableHeight == m[2] - config.screen_margin_bottom
    IN  [width |-> Mul(usableWidth, geom[3]) - config.window_margin_left,
         height |-> Mul(usableHeight, geom[4]) - config.window_margin_top,
         left |-> m[3] + Mul(usableWidth, geom[1]) + config.window_margin_left,
         top |-> m[4] + Mul(usableHeight, geom[2]) + config.window_margin_top]

\* The windowsize and windowmove commands of the log
Resizes == SelectSeq(calls, LAMBDA c : c.cmd = "windowsize")

Moves == SelectSeq(calls, LAMBDA c : c.cmd = "windowmove")

\* Exactly these bounds were sent for the window
Sent(b) ==
    /\ Len(Resizes) = 1 /\ Len(Moves) = 1
    /\ Resizes[1].window = last.window_id /\ Moves[1].window = last.window_id
    /\ Resizes[1].n1 = b.width /\ Resizes[1].n2 = b.height
    /\ Moves[1].n1 = b.left /\ Moves[1].n2 = b.top

NoMargins ==
    /\ config.window_margin_top = 0 /\ config.window_margin_left = 0
    /\ config.screen_margin_bottom = 0 /\ config.screen_margin_right = 0

\* The bounds sent follow the formulas with Mul as the rounding product; with
\* no margins "50% Left" fills the left half of the display
BoundsFollow(Mul(_, _)) ==
    GeometryApplied =>
        /\ Sent(BoundsWith(Mul, last.layout, last.xrandr[1]))
        /\ (NoMargins /\ last.layout = "50% Left") =>
                Sent([left |-> last.xrandr[1][3], top |-> last.xrandr[1][4],
                      width |-> last.xrandr[1][1] \div 2,
                      height |-> last.xrandr[1][2]])

\* C8 as stated: the products are rounded down (floor) for all margins.
C8_Original == BoundsFollow(FloorMul)

\* C8: for every fractional layout, display and non-negative margins the
\* bounds sent are width = int(usableWidth*w) - windowMarginLeft, height =
\* int(usableHeight*h) - windowMarginTop, left = offsetLeft +
\* int(usableWidth*x) + windowMarginLeft, top = offsetTop +
\* int(usableHeight*y) + windowMarginTop, where int rounds toward zero (it is
\* floor when the usable size is not negative); with no margins "50% Left"
\* yields (offsetLeft, offsetTop, floor(W/2), H).
C8_BoundsFormula == BoundsFollow(TruncMul)

\* A third of a usable width of -26: the product -8.67 is sent as -8
C8_Witness ==
    /\ GeometryApplied
    /\ last.layout = COL_33_LEFT
    /\ last.xrandr = <<(<<4, 2, 1920, 0>>)>>
    /\ config.screen_margin_right = 30
    /\ config.window_margin_left = 0
    /\ Len(Resizes) = 1
    /\ Resizes[1].n1 = -8

\* C9: on the display 1920x1080 at (0, 0) with the four margins at 30,
\* "33% Center" sends width 600, height 1020, left 660 and top 30.
C9_ThirdCenterScenario ==
    (/\ GeometryApplied
     /\ last.layout = "33% Center"
     /\ last.xrandr = <<(<<1920, 1080, 0, 0>>)>>
     /\ config.window_margin_top = 30 /\ config.window_margin_left = 30
     /\ config.screen_margin_bottom = 30 /\ config.screen_margin_right = 30)
    => Sent([width |-> 600, height |-> 1020, left |-> 660, top |-> 30])

C9_Witness ==
    /\ GeometryApplied
    /\ last.layout = COL_33_CENTER
    /\ last.xrandr = OneDisplay
    /\ config.window_margin_top = 30 /\ config.window_margin_left = 30
    /\ config.screen_margin_bottom = 30 /\ config.screen_margin_right = 30
    /\ Len(Resizes) = 1
    /\ Resizes[1].n1 = 600

\* The size the formulas give for the last layout
ComputedSize == BoundsWith(TruncMul, last.layout, last.xrandr[1])

\* C10: when the computed width or height is zero or negative, the
\* state-clear, windowsize and windowmove commands are still issued, in that
\* order, and windowsize carries the computed values unchanged.
C10_NoClamping ==
    (GeometryApplied /\ (ComputedSize.width <= 0 \/ ComputedSize.height <= 0))
    => /\ Len(Actuations(calls)) = 3
       /\ Actuations(calls)[1].cmd = "windowstate"
       /\ Actuations(calls)[1].action = "--remove"
       /\ Actuations(calls)[1].prop = "fullscreen,maximized_vert,maximized_horz"
       /\ Actuations(calls)[2].cmd = "windowsize"
       /\ Actuations(calls)[2].n1 = ComputedSize.width
       /\ Actuations(calls)[2].n2 = ComputedSize.height
       /\ Actuations(calls)[3].cmd = "windowmove"

\* A width of exactly zero together with a negative height
C10_Witness ==
    /\ GeometryApplied
    /\ Len(Resizes) = 1
    /\ Resizes[1].n1 = 0
    /\ Resizes[1].n2 < 0
    /\ Len(Moves) = 1

\* The first index of a non-empty set of indices
FirstOf(S) == CHOOSE i \in S : \A j \in S : i <= j

\* C12: the display chosen for a known position is the first printed display
\* with xStart <= px < xEnd and yStart <= py < yEnd; for [0,1920)x[0,1080)
\* followed by [1920,3840)x[0,1080) the position (1920, 0) selects the second.
C12_HalfOpenFirstMatch ==
    /\ (/\ LookedUp
        /\ PositionKnown(last.geometry)
        /\ Containing(last.xrandr, last.geometry) # {})
       => IsMode(last.display,
                 last.xrandr[FirstOf(Containing(last.xrandr, last.geometry))])
    /\ (/\ LookedUp
        /\ last.xrandr = <<(<<1920, 1080, 0, 0>>), (<<1920, 1080, 1920, 0>>)>>
        /\ last.geometry = <<1920, 0>>)
       => IsMode(last.display, <<1920, 1080, 1920, 0>>)

\* The position (1920, 0) with the two monitors side by side
C12_Witness ==
    /\ LookedUp
    /\ last.xrandr = <<(<<1920, 1080, 0, 0>>), (<<1920, 1080, 1920, 0>>)>>
    /\ last.geometry = <<1920, 0>>
    /\ last.display.offset_left = 1920
    /\ Len(Resizes) = 1

\* The commands of a log other than the focus query
Issued(cs) == SelectSeq(cs, LAMBDA c : c.cmd # "getwindowfocus")

C13_State ==
    /\ (last.op = "apply_layout" /\ last.window_id # None
            /\ last.layout = "Full Screen")
       => calls = <<StateCall(last.window_id, "--add", "fullscreen")>>
    /\ (last.op = "apply_layout" /\ last.window_id # None
            /\ last.layout = "Maximized")
       => calls = <<StateCall(last.window_id, "--remove", "fullscreen"),
                    StateCall(last.window_id, "--add",
                              "maximized_vert,maximized_horz")>>

\* apply_layout of a special layout while xrandr reports no display
C13_Step ==
    \A geometry \in ContainGeometry :
        /\ ApplyLayout("Full Screen", "101", geometry, <<>>)
           => /\ calls' = <<StateCall("101", "--add", "fullscreen")>>
              /\ notes' = <<>>
        /\ ApplyLayout("Maximized", "101", geometry, <<>>)
           => /\ Len(calls') = 2
              /\ calls'[1].action = "--remove" /\ calls'[1].prop = "fullscreen"
              /\ calls'[2].action = "--add"
              /\ calls'[2].prop = "maximized_vert,maximized_horz"
              /\ notes' = <<>>

\* C13: apply_layout("Full Screen") issues the single command "add
\* fullscreen" and apply_layout("Maximized") the two commands "remove
\* fullscreen" then "add maximized_vert,maximized_horz"; neither runs
\* getwindowgeometry, xrandr, windowsize or windowmove, also when xrandr
\* reports no display.
C13_SpecialLayoutsBypass == []C13_State /\ [][C13_Step]_vars

\* "Maximized" applied to a window
C13_Witness ==
    /\ last.op = "apply_layout"
    /\ last.window_id = "101"
    /\ last.layout = MAXIMIZED
    /\ Len(calls) = 2
    /\ window_state["101"] = 1

\* The entry of a window differs before and after a step
EntryChanged(w) ==
    \/ (w \in DOMAIN window_state) # (w \in DOMAIN window_state')
    \/ /\ w \in DOMAIN window_state
       /\ w \in DOMAIN window_state'
       /\ window_state'[w] # window_state[w]

C14_OriginalStep ==
    /\ DOMAIN window_state \subseteq DOMAIN window_state'
    /\ \A w \in (DOMAIN window_state) \cup (DOMAIN window_state') :
        EntryChanged(w) =>
            /\ last'.window_id = w
            /\ Actuations(calls') # <<>>

\* C14 as stated: an entry changes only in an application that handed the
\* layout to the actuator, and entries are never removed.
C14_Original == [][C14_OriginalStep]_vars

C14_Step ==
    /\ DOMAIN window_state \subseteq DOMAIN window_state'
    /\ \A w \in (DOMAIN window_state) \cup (DOMAIN window_state') :
        EntryChanged(w) =>
            /\ w # None
            /\ last'.op \in {"apply_layout", "modify_layout"}
            /\ last'.window_id = w
            /\ last'.layout # None
            /\ IF last'.layout \in LayoutNames
               THEN LayoutAfter(w) = last'.layout
               ELSE window_state'[w] = 0

\* C14: an entry of the state map changes only in an apply_layout call for
\* that window id, which sets it to the index of the layout applied (0 for an
\* unknown name) whether or not any command reached the actuator; entries are
\* never removed, so the set of recorded window ids only grows.
C14_EntryOnlyByApply == [][C14_Step]_vars

\* An entry created by a modify_layout that found no display
C14_Witness ==
    /\ last.op = "modify_layout"
    /\ last.window_id = "102"
    /\ last.xrandr = <<>>
    /\ Actuations(calls) = <<>>
    /\ DOMAIN window_state = {"101", "102"}
    /\ LayoutNow("102") = "50% Bottom"

\* C17: LAYOUT_SEQUENCE has 30 distinct names; LAYOUT_GEOMETRY has an entry
\* for exactly the names other than "Full Screen" and "Maximized", each with
\* its four factors in [0, 1], x + w <= 1 and y + h <= 1; the sources and
\* targets of LAYOUT_TRANSITIONS and the targets of DEFAULT_TRANSITIONS are
\* names of LAYOUT_SEQUENCE; every index the state map holds is a position of
\* the enumeration.
C17_Catalog ==
    /\ \A w \in DOMAIN window_state : window_state[w] \in 0..29
    /\ Len(LAYOUT_SEQUENCE) = 30
    /\ \A i, j \in 1..Len(LAYOUT_SEQUENCE) :
            i # j => LAYOUT_SEQUENCE[i] # LAYOUT_SEQUENCE[j]
    /\ DOMAIN LAYOUT_GEOMETRY =
            {LAYOUT_SEQUENCE[i] : i \in 1..Len(LAYOUT_SEQUENCE)}
                \ {"Full Screen", "Maximized"}
    /\ \A name \in DOMAIN LAYOUT_GEOMETRY :
            /\ \A k \in 1..4 : LAYOUT_GEOMETRY[name][k] \in 0..GeomDen
            /\ LAYOUT_GEOMETRY[name][1] + LAYOUT_GEOMETRY[name][3] <= GeomDen
            /\ LAYOUT_GEOMETRY[name][2] + LAYOUT_GEOMETRY[name][4] <= GeomDen
    /\ \A key \in DOMAIN LAYOUT_TRANSITIONS :
            /\ InList(LAYOUT_SEQUENCE, key[1])
            /\ InList(LAYOUT_SEQUENCE, LAYOUT_TRANSITIONS[key])
    /\ DOMAIN DEFAULT_TRANSITIONS = {"left", "right", "up", "down"}
    /\ \A d \in DOMAIN DEFAULT_TRANSITIONS :
            InList(LAYOUT_SEQUENCE, DEFAULT_TRANSITIONS[d])

\* The last name of the sequence applied with its geometry, a ninth of the
\* usable area in the bottom right corner
C17_Witness ==
    /\ last.op = "apply_layout"
    /\ last.window_id = "101"
    /\ last.layout = CELL_33_RIGHT_BOTTOM
    /\ window_state["101"] = 29
    /\ Sent([width |-> 600, height |-> 320, left |-> 1290, top |-> 730])

\* The corner cell of a horizontal and a vertical direction, in either order
CornerOf(d1, d2) ==
    CASE {d1, d2} = {"left", "up"} -> "50% Top Left"
      [] {d1, d2} = {"left", "down"} -> "50% Bottom Left"
      [] {d1, d2} = {"right", "up"} -> "50% Top Right"
      [] {d1, d2} = {"right", "down"} -> "50% Bottom Right"

Perpendicular(d1, d2) ==
    \/ d1 \in {"left", "right"} /\ d2 \in {"up", "down"}
    \/ d1 \in {"up", "down"} /\ d2 \in {"left", "right"}

\* A modify_layout on a focused window directly followed by one on the same
\* window in a perpendicular direction
TwoPresses ==
    /\ last.op = "modify_layout"
    /\ last.window_id # None
    /\ ModifiedFocused
    /\ last'.window_id = last.window_id
    /\ Perpendicular(last.direction, last'.direction)

\* After the first press a half, after the second the corner cell
HalfThenCorner ==
    /\ LayoutBefore(last.window_id) = DefaultOf(last.direction)
    /\ LayoutAfter(last.window_id) = CornerOf(last.direction, last'.direction)

\* C19 as stated: from every previously recorded layout.
C19_Original == [][TwoPresses => HalfThenCorner]_vars

\* C19: when the first of two perpendicular presses is made from a recorded
\* layout (or none) without a LAYOUT_TRANSITIONS entry for its direction, it
\* snaps the window to the half of that direction and the second leaves the
\* window recorded in the corner cell of the two directions.
C19_TwoPressRefinement ==
    [][(/\ TwoPresses
        /\ ~\E rule \in C2_Rules :
                rule[1] = last.current_layout /\ rule[2] = last.direction)
       => HalfThenCorner]_vars

\* The second press: up from "50% Left" into the top left corner
C19_Witness ==
    /\ last.op = "modify_layout"
    /\ last.window_id = "101"
    /\ last.direction = "up"
    /\ last.current_layout = "50% Left"
    /\ LayoutNow("101") = "50% Top Left"
    /\ DOMAIN window_state = {"101"}

\* apply_layout directly repeated with the same layout and displays for the
\* window found at the position the previous call moved it to
Reapplied ==
    /\ GeometryApplied
    /\ Len(Moves) = 1
    /\ last'.op = "apply_layout"
    /\ last'.window_id = last.window_id
    /\ last'.layout = last.layout
    /\ last'.xrandr = last.xrandr
    /\ last'.geometry = <<Moves[1].n1, Moves[1].n2>>

\* The four numbers sent by the commands of a call
BoundsSent(cs) ==
    <<SelectSeq(cs, LAMBDA c : c.cmd = "windowsize"),
      SelectSeq(cs, LAMBDA c : c.cmd = "windowmove")>>

SameDisplayAgain ==
    /\ PositionKnown(last'.geometry)
    /\ IsMode(last.display,
              last.xrandr[IF Containing(last.xrandr, last'.geometry) # {}
                          THEN FirstOf(Containing(last.xrandr, last'.geometry))
                          ELSE 1])

LoadedMalformed ==
    /\ last.op \in {"main", "_action_reload_config"}
    /\ last.file.kind = "malformed"

\* C18: whenever the most recent Config.load read a malformed settings file
\* the process has not crashed and every setting has its built-in default
\* (margins 30/30/30/30, notify_on_apply_layout false, notify_on_launch true)
\* whatever earlier loads had set.
C18_MalformedGivesDefaults ==
    LoadedMalformed =>
        /\ ~last.raised
        /\ config.window_margin_top = 30
        /\ config.window_margin_left = 30
        /\ config.screen_margin_bottom = 30
        /\ config.screen_margin_right = 30
        /\ config.notify_on_apply_layout = FALSE
        /\ config.notify_on_launch = TRUE

\* The locals of the menu thread
Menu == threads["menu"]

\* apply_layout was called with a non-empty window id and a name of the
\* sequence, and has ended
ApplyEnded ==
    /\ Menu.pc = "idle"
    /\ Menu.window_id # None
    /\ Menu.layout # None
    /\ \E i \in 1..Len(LAYOUT_SEQUENCE) : LAYOUT_SEQUENCE[i] = Menu.layout

\* Every state toggle, resize and move of the layout was issued, none after
\* a "Layout Error"
AllIssued ==
    /\ "Layout Error" \notin {notes[i] : i \in 1..Len(notes)}
    /\ LET cmds == [i \in 1..Len(Actuations(calls)) |-> Actuations(calls)[i].cmd]
       IN  CASE Menu.layout = "Full Screen" -> cmds = <<"windowstate">>
             [] Menu.layout = "Maximized" ->
                    cmds = <<"windowstate", "windowstate">>
             [] OTHER -> cmds = <<"windowstate", "windowsize", "windowmove">>

\* C16 as stated: the failure of any single command of apply_layout is
\* skipped and every remaining step is issued.
C16_Original ==
    (ApplyEnded /\ Cardinality(Menu.failed) = 1) => AllIssued

\* C16: a failed state toggle, resize or move, and a failed first display
\* listing when the fallback listing prints a display (the first of which is
\* then used), are skipped and every remaining step of apply_layout is
\* issued; a failed position query or a failed fallback listing ends the
\* operation with "Layout Error" and without any state toggle, resize or
\* move, the index of the layout being recorded already.
C16_FailureHandling ==
    ApplyEnded =>
        /\ (Menu.failed \cap {"position", "fallback"} = {}) => AllIssued
        /\ ("listing" \in Menu.failed /\ "fallback" \notin Menu.failed)
            => IsMode(Menu.display, Menu.xrandr[1])
        /\ (Menu.failed \cap {"position", "fallback"} # {})
            => /\ Actuations(calls) = <<>>
               /\ notes[Len(notes)] = "Layout Error"
               /\ LayoutNow(Menu.window_id) = Menu.layout

\* The first listing, the state toggle, the resize and the move all failed
\* and "50% Left" was still applied
C16_Witness ==
    /\ ApplyEnded
    /\ Menu.layout = COL_50_LEFT
    /\ Menu.failed = {"listing", "clear", "size", "move"}
    /\ AllIssued

\* The steps of apply_layout after the index is recorded
AfterRecord ==
    {"add_fullscreen", "remove_fullscreen", "add_maximized", "position",
     "listing", "fallback", "clear", "size", "move"}

\* The state map names the layout the menu thread is applying
NamesApplied(ws) ==
    /\ Menu.window_id \in DOMAIN ws
    /\ IF \E i \in 1..Len(LAYOUT_SEQUENCE) : LAYOUT_SEQUENCE[i] = Menu.layout
       THEN LAYOUT_SEQUENCE[ws[Menu.window_id] + 1] = Menu.layout
       ELSE ws[Menu.window_id] = 0

\* C20 as stated: the index is recorded only after the actuator
\* instructions of the layout have been issued.
C20_Original ==
    [][\A w \in DOMAIN window_state' :
            EntryChanged(w) => Actuations(calls) # <<>>]_vars

C20_Step ==
    /\ Menu.pc = "record" =>
        /\ \A i \in 1..Len(calls) : calls[i].cmd = "getwindowfocus"
        /\ calls' = calls
        /\ NamesApplied(window_state')
        /\ threads'["menu"].pc \in AfterRecord
    /\ Menu.pc \in AfterRecord =>
        /\ NamesApplied(window_state)
        /\ window_state' = window_state

\* C20: apply_layout records the index of the layout first, before the
\* display is resolved and before any actuator instruction is issued (record,
\* resolve, compute, actuate); every later step leaves the map as it is, so
\* during those steps the map names a layout whose instructions have not all
\* been issued.
C20_RecordFirst == [][C20_Step]_vars

\* In the middle of an application: "50% Left" is recorded and the position
\* of the window has not been asked for yet
C20_Witness ==
    /\ Menu.pc = "position"
    /\ Menu.op = "_on_layout_activate"
    /\ Menu.layout = COL_50_LEFT
    /\ LayoutNow("101") = COL_50_LEFT
    /\ Actuations(calls) = <<>>

\* The layout modify_layout reads for a window the map may not know
ReadAs(L) == IF L \in {None, "none"} THEN "Maximized" ELSE L

\* The layout recorded when the operation of a thread runs alone from L
RunAlone(th, L) ==
    IF th.op = "modify_layout" THEN ExpectedNext(ReadAs(L), th.direction)
    ELSE th.layout

\* Both threads have run one operation on the same window
BothDone ==
    /\ \A t \in Threads :
        /\ threads[t].pc = "idle"
        /\ threads[t].runs = 1
        /\ threads[t].window_id = "101"

\* C15: when a modify_layout of the hotkey thread and an apply_layout or a
\* second modify_layout of the menu thread interleave on one window, the
\* layout finally recorded is the one left by running the two operations one
\* after the other in some order.
C15_SequentialPerWindow ==
    BothDone =>
        LET hotkey == threads["hotkey"]
            menu == threads["menu"]
        IN  LayoutNow("101") \in
                {RunAlone(menu, RunAlone(hotkey, hotkey.start)),
                 RunAlone(hotkey, RunAlone(menu, menu.start))}

\* The layouts the four directions lead to
HotkeyLayouts ==
    {"50% Left", "50% Right", "50% Top", "50% Bottom", "50% Top Left",
     "50% Bottom Left", "50% Top Right", "50% Bottom Right"}

C21_Step ==
    /\ ModifiedFocused => LayoutAfter(last'.window_id) \in HotkeyLayouts
    /\ \A w \in DOMAIN window_state' :
        (EntryChanged(w) /\ LayoutAfter(w) \notin HotkeyLayouts)
            => last'.op \in {"apply_layout", "_on_layout_activate"}
    /\ (/\ last.op = "modify_layout"
        /\ last.window_id # None
        /\ ModifiedFocused
        /\ last'.window_id = last.window_id
        /\ last'.direction = last.direction)
        => LayoutAfter(last'.window_id) = DefaultOf(last'.direction)

\* C21: right after modify_layout(d) on a focused window the layout recorded
\* for it is one of the eight 50% layouts; any other layout is recorded only
\* by a direct apply_layout; the same direction pressed twice in a row ends
\* in DEFAULT_TRANSITIONS[d].
C21_HotkeyReachable == [][C21_Step]_vars

\* "left" pressed on a window in the top left corner: back to "50% Left"
C21_Witness ==
    /\ last.op = "modify_layout"
    /\ last.window_id = "101"
    /\ last.direction = "left"
    /\ last.current_layout = "50% Top Left"
    /\ LayoutNow("101") = "50% Left"

\* C22: for every fractional layout, every display and non-negative margins
\* with screen_margin_right <= display width and screen_margin_bottom <=
\* display height, the bounds sent stay inside the usable area: left + width
\* <= offsetLeft + (width - screen_margin_right), top + height <= offsetTop +
\* (height - screen_margin_bottom), left >= offsetLeft + window_margin_left
\* and top >= offsetTop + window_margin_top.
C22_InsideUsableArea ==
    (/\ GeometryApplied
     /\ config.screen_margin_right <= last.xrandr[1][1]
     /\ config.screen_margin_bottom <= last.xrandr[1][2])
    => /\ Len(Resizes) = 1
       /\ Len(Moves) = 1
       /\ Moves[1].n1 + Resizes[1].n1
            <= last.xrandr[1][3]
                + (last.xrandr[1][1] - config.screen_margin_right)
       /\ Moves[1].n2 + Resizes[1].n2
            <= last.xrandr[1][4]
                + (last.xrandr[1][2] - config.screen_margin_bottom)
       /\ Moves[1].n1 >= last.xrandr[1][3] + config.window_margin_left
       /\ Moves[1].n2 >= last.xrandr[1][4] + config.window_margin_top

\* The right third of a usable width of 4 - 1 = 3 with a window margin of 1:
\* the window is moved to 1920 + 2 + 1 and ends at the usable edge 1923
C22_Witness ==
    /\ GeometryApplied
    /\ last.layout = COL_33_RIGHT
    /\ last.xrandr = <<(<<4, 2, 1920, 0>>)>>
    /\ config.screen_margin_right = 1
    /\ config.window_margin_left = 1
    /\ Len(Moves) = 1 /\ Len(Resizes) = 1
    /\ Moves[1].n1 = 1923
    /\ Moves[1].n1 + Resizes[1].n1 = 1923

\* The last windowsize and the last windowmove of the log carry the bounds
\* of layout L on the one monitor
LastBoundsOf(L) ==
    LET b == BoundsWith(TruncMul, L, OneDisplay[1])
    IN  /\ Resizes # <<>>
        /\ Moves # <<>>
        /\ Resizes[Len(Resizes)].n1 = b.width
        /\ Resizes[Len(Resizes)].n2 = b.height
        /\ Moves[Len(Moves)].n1 = b.left
        /\ Moves[Len(Moves)].n2 = b.top

\* C23: when apply_layout has run for the same window on the hotkey thread
\* and on the menu thread with different fractional layouts and both calls
\* have completed, the last resize and the last move received come from one
\* of the two layouts, and that layout is the one the state map records.
C23_RecordMatchesGeometry ==
    (/\ BothDone
     /\ \A t \in Threads : threads[t].layout \in DOMAIN LAYOUT_GEOMETRY
     /\ threads["hotkey"].layout # threads["menu"].layout)
    => \E t \in Threads :
            /\ LastBoundsOf(threads[t].layout)
            /\ LayoutNow("101") = threads[t].layout

C24_Step ==
    /\ \A w \in (DOMAIN window_state) \cup (DOMAIN window_state') :
        EntryChanged(w) => w = last'.window_id
    /\ ModifiedFocused =>
        last'.current_layout = LayoutBefore(last'.window_id)

\* C24: apply_layout(layout, w) and modify_layout on the focused window w
\* change at most the entry of w in the state map and leave the entry of
\* every other window id as it was; the layout modify_layout resolves for a
\* window is read from the entry of that window alone.
C24_PerWindowIndependence == [][C24_Step]_vars

\* A hotkey moved the second window while the first keeps its own layout
C24_Witness ==
    /\ last.op = "modify_layout"
    /\ last.window_id = "102"
    /\ last.current_layout = "33% Center"
    /\ LayoutNow("102") = "50% Top"
    /\ DOMAIN window_state = {"101", "102"}
    /\ LayoutNow("101") = "66% Right"

====
